---------------------------- MODULE Spec2Model ----------------------------
(***************************************************************************)
(* Model of heka's systemd plugin:                                         *)
(*   - the export-format stream parser (plugins/systemd/journalctl_parser.go) *)
(*   - JournalCtlInput (plugins/systemd/journalctl_input.go): Init, Run's  *)
(*     dispatch loop, the steps of writeCheckpoint, RunCmd and the two     *)
(*     producers ParseOutput and ParseErrorOutput, Stop                    *)
(*                                                                         *)
(* Bytes are integers 0..255, byte strings are sequences of bytes.  Go     *)
(* slices are 0-based and half open: buf[a:b] is SubSeq(buf, a+1, b).      *)
(* A Go run-time panic (slice bounds out of range) is a terminal outcome   *)
(* recorded in the variable "panicked".                                    *)
(*                                                                         *)
(* The buffer sizes of the parser (8192 initial bytes, 4096 low-water      *)
(* mark, message.MAX_RECORD_SIZE) are scaled down to BufInit, LowWater and *)
(* MAX_RECORD_SIZE; the code only compares them with positions, so the     *)
(* scaled model takes the same branches on proportionally shorter input.   *)
(***************************************************************************)
EXTENDS Integers, Sequences, FiniteSets, TLC

(***************************************************************************)
(* Sizes                                                                   *)
(***************************************************************************)
\* make([]byte, 1024*8), scaled
BufInit == 16
\* the 1024*4 of read(), scaled
LowWater == 8
\* message.MAX_RECORD_SIZE, scaled
MAX_RECORD_SIZE == 40
\* width of the length prefix of a binary field
LenBytes == 8
\* number of fields an input stream is built from
MaxFields == 2

NL == 10
EQ == 61

Min(a, b) == IF a < b THEN a ELSE b

(***************************************************************************)
(* Byte-string helpers (Go's bytes / strings packages)                     *)
(***************************************************************************)
\* buf[lo:hi]
Slice(b, lo, hi) == SubSeq(b, lo + 1, hi)

Zeros(n) == [i \in 1..n |-> 0]

\* copy(dst, src): overwrites the first min(len(dst), len(src)) bytes of dst
copy(dst, src) ==
  [i \in 1..Len(dst) |-> IF i <= Len(src) THEN src[i] ELSE dst[i]]

\* bytes.IndexByte: 0-based index of the first c in s, -1 when absent
IndexByte(s, c) ==
  IF \E i \in 1..Len(s) : s[i] = c
    THEN (CHOOSE i \in 1..Len(s) : s[i] = c /\ \A j \in 1..(i - 1) : s[j] # c) - 1
    ELSE -1

\* a split at the last separator instead of the first
SplitN2Last(s, sep) ==
  IF \E i \in 1..Len(s) : s[i] = sep
    THEN LET i == CHOOSE k \in 1..Len(s) : s[k] = sep /\ \A j \in (k + 1)..Len(s) : s[j] # sep
         IN  <<SubSeq(s, 1, i - 1), SubSeq(s, i + 1, Len(s))>>
    ELSE <<s>>

\* strings.SplitN(s, sep, 2) for a one-byte separator
SplitN2(s, sep) ==
  LET i == IndexByte(s, sep)
  IN  IF i = -1 THEN <<s>>
      ELSE <<Slice(s, 0, i), Slice(s, i + 1, Len(s))>>

\* strings.TrimSuffix(s, "\n")
TrimSuffixNL(s) ==
  IF Len(s) > 0 /\ s[Len(s)] = NL THEN Slice(s, 0, Len(s) - 1) ELSE s

(***************************************************************************)
(* int64(binary.LittleEndian.Uint64(b)).  The result is exact below 2^24;  *)
(* every larger unsigned value is far beyond any buffer capacity and is    *)
(* represented by HugeLen, and a value with the top bit set converts to a  *)
(* negative int64, represented by NegLen.  The code uses the value only as *)
(* a slice bound and as an increment of scanPos.                           *)
(***************************************************************************)
HugeLen == 16777216
NegLen == -1
\* the same bytes read in big-endian order
BigEndianInt64(b) ==
  IF b[1] >= 128 THEN NegLen
  ELSE IF \E i \in 1..5 : b[i] # 0 THEN HugeLen
  ELSE b[8] + 256 * b[7] + 65536 * b[6]

LittleEndianInt64(b) ==
  IF b[8] >= 128 THEN NegLen
  ELSE IF \E i \in 4..8 : b[i] # 0 THEN HugeLen
  ELSE b[1] + 256 * b[2] + 65536 * b[3]

\* the 8 bytes binary.LittleEndian.PutUint64 produces for a small n
PutUint64(n) == <<n % 256, (n \div 256) % 256, 0, 0, 0, 0, 0, 0>>

(***************************************************************************)
(* journalCtlStreamParserBuffer                                            *)
(***************************************************************************)
Cap(p) == Len(p.buf)

newJournalCtlStreamParserBuffer ==
  [buf |-> Zeros(BufInit), readPos |-> 0, scanPos |-> 0, needData |-> TRUE]

SetMinimumBufferSize(p, size) ==
  IF Cap(p) < size
    THEN [p EXCEPT !.buf = copy(Zeros(size), p.buf)]
    ELSE p

\* reader.Read(dst) on a source that still holds "data" and hands out at
\* most n bytes in this call: the number of bytes delivered
ReadCount(dstLen, data, n) == Min(n, Min(Len(data), dstLen))

\* read(): result [p, n, err, panic]
read(p, data, n) ==
  LET prep ==
        IF Cap(p) - p.readPos <= LowWater
          THEN IF p.scanPos = 0
                 THEN LET dbl == Cap(p) * 2
                          newSize == IF dbl > MAX_RECORD_SIZE
                                       THEN IF Cap(p) = MAX_RECORD_SIZE
                                              THEN 0
                                              ELSE MAX_RECORD_SIZE
                                       ELSE dbl
                      IN  IF dbl > MAX_RECORD_SIZE /\ Cap(p) = MAX_RECORD_SIZE
                             /\ p.readPos = Cap(p)
                            THEN [p |-> [p EXCEPT !.scanPos = 0, !.readPos = 0],
                                  short |-> TRUE, panic |-> FALSE]
                            ELSE [p |-> IF newSize > 0
                                          THEN SetMinimumBufferSize(p, newSize)
                                          ELSE p,
                                  short |-> FALSE, panic |-> FALSE]
                 ELSE IF p.scanPos > p.readPos
                        THEN [p |-> p, short |-> FALSE, panic |-> TRUE]
                        ELSE [p |-> [p EXCEPT
                                       !.buf = copy(p.buf, Slice(p.buf, p.scanPos, p.readPos)),
                                       !.readPos = p.readPos - p.scanPos,
                                       !.scanPos = 0],
                              short |-> FALSE, panic |-> FALSE]
          ELSE [p |-> p, short |-> FALSE, panic |-> FALSE]
      q == prep.p
      cnt == ReadCount(Cap(q) - q.readPos, data, n)
  IN  IF prep.panic THEN [p |-> q, n |-> 0, err |-> "nil", panic |-> TRUE, fromSrc |-> 0]
      ELSE IF prep.short
        THEN [p |-> q, n |-> Cap(p), err |-> "ErrShortBuffer", panic |-> FALSE, fromSrc |-> 0]
      ELSE IF Len(data) = 0
        THEN [p |-> q, n |-> 0, err |-> "EOF", panic |-> FALSE, fromSrc |-> 0]
      ELSE [p |-> [q EXCEPT !.buf =
                     [i \in 1..Cap(q) |->
                        IF i > q.readPos /\ i <= q.readPos + cnt
                          THEN data[i - q.readPos] ELSE q.buf[i]]],
            n |-> cnt, err |-> "nil", panic |-> FALSE, fromSrc |-> cnt]

\* findRecord(): [bytesRead, record]
findRecord(b) ==
  LET n == IndexByte(b, NL)
  IN  IF n = -1 THEN [bytesRead |-> 0, record |-> <<>>]
      ELSE [bytesRead |-> n + 1, record |-> Slice(b, 0, n + 1)]

(***************************************************************************)
(* JournalCtlParser.Parse.  The result carries the return values           *)
(* (bytesRead, key, value, final, err), the parser afterwards, whether the *)
(* call panicked, and what the call saw: reads (number of reader.Read      *)
(* calls), fromSrc (bytes taken from the source), sp0/rp0 (scanPos and     *)
(* readPos when the buffer is scanned, line 140), the scanned bytes, and   *)
(* sp1 (scanPos after the advance of line 164, before lines 165-175).      *)
(***************************************************************************)
ParseResult(p, bytesRead, key, value, final, err, panic, reads, fromSrc, sp0, rp0, view) ==
  [p |-> p, bytesRead |-> bytesRead, key |-> key, value |-> value,
   final |-> final, err |-> err, panic |-> panic, reads |-> reads,
   fromSrc |-> fromSrc, sp0 |-> sp0, rp0 |-> rp0, view |-> view,
   scanned |-> TRUE, sp1 |-> p.scanPos]

\* a return (or panic) before the buffer was scanned
NotScanned(r) == [r EXCEPT !.scanned = FALSE]

\* lines 164-176
ParseFinish(p, bytesRead, record, key, value, final, reads, fromSrc, sp0, rp0, view) ==
  LET q == [p EXCEPT !.scanPos = @ + bytesRead]
      r == IF Len(record) = 0
             THEN [q EXCEPT !.needData = TRUE]
             ELSE IF q.readPos = q.scanPos
                    THEN [q EXCEPT !.readPos = 0, !.scanPos = 0, !.needData = TRUE]
                    ELSE [q EXCEPT !.needData = FALSE]
  IN  [ParseResult(r, bytesRead, key, value, final, "nil", FALSE, reads, fromSrc, sp0, rp0, view)
         EXCEPT !.sp1 = q.scanPos]

\* lines 151-162: the binary branch
ParseBinary(p, fr, s, reads, fromSrc, sp0, rp0, view) ==
  LET p2 == [p EXCEPT !.scanPos = @ + fr.bytesRead]
      key == TrimSuffixNL(s)
  IN  IF p2.scanPos + LenBytes > Cap(p2)
        THEN ParseResult(p2, fr.bytesRead, <<>>, <<>>, FALSE, "nil", TRUE, reads, fromSrc, sp0, rp0, view)
        ELSE
          LET length == LittleEndianInt64(Slice(p2.buf, p2.scanPos, p2.scanPos + LenBytes))
              p3 == [p2 EXCEPT !.scanPos = @ + LenBytes]
          IN  IF length < 0 \/ p3.scanPos + length > Cap(p3)
                THEN ParseResult(p3, fr.bytesRead, <<>>, <<>>, FALSE, "nil", TRUE, reads, fromSrc, sp0, rp0, view)
                ELSE
                  LET record == Slice(p3.buf, p3.scanPos, p3.scanPos + length)
                      p4 == [p3 EXCEPT !.scanPos = @ + 1]
                  IN  ParseFinish(p4, length, record, key, record, FALSE, reads, fromSrc, sp0, rp0, view)

\* lines 138-163
ParseScan(p0, nread, reads, fromSrc) ==
  LET p1 == [p0 EXCEPT !.readPos = @ + nread]
  IN  IF p1.scanPos > p1.readPos
        THEN NotScanned(ParseResult(p1, nread, <<>>, <<>>, FALSE, "nil", TRUE, reads, fromSrc,
                                    p1.scanPos, p1.readPos, <<>>))
        ELSE
          LET view == Slice(p1.buf, p1.scanPos, p1.readPos)
              fr == findRecord(view)
              s == fr.record
              split == SplitN2(s, EQ)
          IN  IF s = <<NL>>
                THEN ParseFinish(p1, fr.bytesRead, fr.record, <<>>, <<>>, TRUE,
                                 reads, fromSrc, p1.scanPos, p1.readPos, view)
              ELSE IF Len(split) > 1
                THEN ParseFinish(p1, fr.bytesRead, fr.record, split[1], TrimSuffixNL(split[2]), FALSE,
                                 reads, fromSrc, p1.scanPos, p1.readPos, view)
              ELSE ParseBinary(p1, fr, s, reads, fromSrc, p1.scanPos, p1.readPos, view)

\* Parse(reader): data is what the source still holds, n the most it hands
\* out in one Read
Parse(p, data, n) ==
  IF p.needData
    THEN LET r == read(p, data, n)
         IN  IF r.panic
               THEN NotScanned(ParseResult(r.p, 0, <<>>, <<>>, FALSE, "nil", TRUE, 0, 0,
                                           r.p.scanPos, r.p.readPos, <<>>))
             ELSE IF r.err # "nil"
               THEN NotScanned(ParseResult(r.p, r.n, <<>>, <<>>, FALSE, r.err, FALSE,
                                           IF r.err = "EOF" THEN 1 ELSE 0, 0,
                                           r.p.scanPos, r.p.readPos, <<>>))
             ELSE ParseScan(r.p, r.n, 1, r.fromSrc)
    ELSE ParseScan(p, 0, 0, 0)

\* GetRemainingData(): [p, record]
GetRemainingData(p) ==
  [p |-> [p EXCEPT !.scanPos = 0, !.readPos = 0],
   record |-> IF p.readPos - p.scanPos > 0
                THEN Slice(p.buf, p.scanPos, p.readPos) ELSE <<>>]

(***************************************************************************)
(* Input streams: what the byte source (journalctl's stdout in export      *)
(* format) delivers.  A stream is a concatenation of at most MaxFields     *)
(* items, or an unterminated line of MAX_RECORD_SIZE bytes followed by a   *)
(* well-formed entry.                                                      *)
(***************************************************************************)
BinField(key, payload) ==
  key \o <<NL>> \o PutUint64(Len(payload)) \o payload \o <<NL>>

\* "A=b\n"
TextField == <<65, 61, 98, 10>>
\* "B=c=d\n"
TextField2 == <<66, 61, 99, 61, 100, 10>>
\* a textual field whose key and value are the bytes 2 and 3
LowField == <<2, 61, 3, 10>>
\* the blank line that ends an entry
EndOfEntry == <<NL>>
\* "K\n" <3> "x\n=" "\n"
BinData == BinField(<<75>>, <<120, 10, 61>>)
\* "L\n" <0> "\n"
BinEmpty == BinField(<<76>>, <<>>)
\* length 2^64-1, -1 as an int64
BinNeg == <<78, 10, 255, 255, 255, 255, 255, 255, 255, 255, 10>>
\* length MAX_RECORD_SIZE + 1, no payload
BinOver == <<79, 10>> \o PutUint64(MAX_RECORD_SIZE + 1) \o <<NL>>

Items == {TextField, TextField2, LowField, EndOfEntry, BinData, BinEmpty, BinNeg,
          BinOver}

RECURSIVE Concat(_)
Concat(ss) == IF ss = <<>> THEN <<>> ELSE Head(ss) \o Concat(Tail(ss))

ItemSeqs == UNION {[1..k -> Items] : k \in 1..MaxFields}

OversizedLine(c) == [i \in 1..MAX_RECORD_SIZE |-> c]
OversizedStreams ==
  {OversizedLine(c) \o <<NL>> \o TextField \o EndOfEntry : c \in {97, 1}}

Streams == {Concat(ss) : ss \in ItemSeqs} \cup OversizedStreams

(***************************************************************************)
(* State                                                                   *)
(***************************************************************************)
VARIABLES
  p,         \* the JournalCtlParser: buf, readPos, scanPos, needData
  stream,    \* all the bytes the source will deliver
  off,       \* number of bytes of stream the reader has handed out
  ret,       \* the return values of the last parser call and what it saw
  out,       \* the fields and end-of-entry markers returned so far
  panicked,  \* a parser call ended in a run-time panic
  phase,     \* "parsing", "eof" (Parse returned io.EOF), "closed"
  shortSeen, \* Parse has returned io.ErrShortBuffer
  \* JournalCtlInput
  ckFile,         \* content of the checkpoint file, NoFile when it does not exist
  cursor,         \* pi.cursor
  first,          \* pi.first
  drop_cursor,    \* pi.drop_cursor
  bad_matches,    \* pi.bad_matches
  checkpointFile, \* pi.checkpointFile: "nil" or "open"
  stopClosed,     \* pi.stopChan of the current session is closed
  onceDone,       \* pi.once has fired
  run,            \* "new", "inited", "running", "returned", "failed", "initfailed",
                  \* "crashed" (the host process died), "panicked" (a goroutine
                  \* sent on a closed channel)
  proc,           \* the external process: "notstarted", "running", "exited",
                  \* "startfailed" (cmd.Start returned an error)
  afterCursor,    \* the --after-cursor argument of pi.cmd, "" when absent
  sessions,       \* number of Init calls so far
  nrecv,          \* entries received from stdoutChan in this session
  trace,          \* this session's discards, dispatches and checkpoint writes
  last,           \* what the dispatch loop did with the last received entry
  lp,             \* where Run's loop is: "select", or inside writeCheckpoint at
                  \* "open", "truncate" or "write"
  produced,       \* the records ParseOutput has read from the process, in order
  startFile,      \* content of the checkpoint file when the session's Init ran
  seekSeen,       \* Run handled "Failed to seek to cursor" since the last Init call
  prevSeek,       \* seekSeen at the time of the last Init call
  matchSeen,      \* Run handled "Failed to add match" on this instance
  stopRequested,  \* Stop() was called since the session's Init
  closes,         \* number of close(pi.stopChan) on the session's channel
  ckFailed,       \* a step of writeCheckpoint failed in this session
  rc,             \* where RunCmd is: "idle" (not running), "start", "wait",
                  \* "closeerr" (stdoutChan closed), "done" (both closed)
  tasks,          \* the ParseOutput and ParseErrorOutput goroutines were started
  errPending,     \* ParseErrorOutput is sending a line on stderrChan
  badCursors      \* the cursors for which a seek failure was reported

pvars == <<p, stream, off, ret, out, panicked, phase, shortSeen>>
ivars == <<ckFile, cursor, first, drop_cursor, bad_matches, checkpointFile,
           stopClosed, onceDone, run, proc, afterCursor, sessions, nrecv, trace, last,
           lp, produced, startFile, seekSeen, prevSeek, matchSeen, stopRequested,
           closes, ckFailed, rc, tasks, errPending, badCursors>>
vars == <<p, stream, off, ret, out, panicked, phase, shortSeen,
          ckFile, cursor, first, drop_cursor, bad_matches, checkpointFile,
          stopClosed, onceDone, run, proc, afterCursor, sessions, nrecv, trace, last,
          lp, produced, startFile, seekSeen, prevSeek, matchSeen, stopRequested,
          closes, ckFailed, rc, tasks, errPending, badCursors>>
\* the state of RunCmd and of the two producers
rvars == <<rc, tasks, errPending, badCursors>>

NoCall ==
  [op |-> "none", bytesRead |-> 0, key |-> <<>>, value |-> <<>>, final |-> FALSE,
   err |-> "nil", reads |-> 0, fromSrc |-> 0, sp0 |-> 0, rp0 |-> 0, view |-> <<>>,
   scanned |-> FALSE, sp1 |-> 0,
   needData0 |-> TRUE, scanPos0 |-> 0, readPos0 |-> 0, off0 |-> 0, pending |-> <<>>]

\* what a caller takes from a return of Parse: a field, an end-of-entry
\* marker, or nothing
IsItem(r) == r.err = "nil" /\ (r.final \/ r.key # <<>> \/ r.value # <<>>)

ParserStart ==
  /\ p = newJournalCtlStreamParserBuffer
  /\ stream \in Streams
  /\ off = 0
  /\ ret = NoCall
  /\ out = <<>>
  /\ panicked = FALSE
  /\ phase = "parsing"
  /\ shortSeen = FALSE

\* one call of Parse; the reader hands out at most n bytes
DoParse ==
  /\ phase = "parsing"
  /\ ~panicked
  /\ \E n \in 1..(IF Len(stream) - off > 0 THEN Len(stream) - off ELSE 1) :
       LET data == Slice(stream, off, Len(stream))
           r == Parse(p, data, n)
       IN  /\ p' = r.p
           /\ off' = off + r.fromSrc
           /\ panicked' = r.panic
           /\ ret' = [op |-> "Parse", bytesRead |-> r.bytesRead, key |-> r.key,
                      value |-> r.value, final |-> r.final, err |-> r.err,
                      reads |-> r.reads, fromSrc |-> r.fromSrc, sp0 |-> r.sp0,
                      rp0 |-> r.rp0, view |-> r.view, scanned |-> r.scanned,
                      sp1 |-> r.sp1, needData0 |-> p.needData,
                      scanPos0 |-> p.scanPos, readPos0 |-> p.readPos, off0 |-> off,
                      pending |-> IF p.scanPos <= p.readPos
                                    THEN Slice(p.buf, p.scanPos, p.readPos) ELSE <<>>]
           /\ out' = IF ~r.panic /\ IsItem(r)
                       THEN Append(out, [key |-> r.key, value |-> r.value, final |-> r.final])
                       ELSE out
           /\ phase' = IF r.err = "EOF" THEN "eof" ELSE "parsing"
           /\ shortSeen' = (shortSeen \/ r.err = "ErrShortBuffer")
  /\ UNCHANGED stream
  /\ UNCHANGED ivars

\* the caller fetches the rest of the buffer at the end of the stream
DoGetRemainingData ==
  /\ phase = "eof"
  /\ LET r == GetRemainingData(p)
     IN  /\ p' = r.p
         /\ ret' = [NoCall EXCEPT !.op = "GetRemainingData", !.value = r.record,
                                  !.needData0 = p.needData, !.scanPos0 = p.scanPos,
                                  !.readPos0 = p.readPos, !.off0 = off]
  /\ phase' = "closed"
  /\ UNCHANGED <<stream, off, out, panicked, shortSeen>>
  /\ UNCHANGED ivars

ParserNext == DoParse \/ DoGetRemainingData

(***************************************************************************)
(* JournalCtlInput (journalctl_input.go).  A record arriving on stdoutChan *)
(* is represented by the cursor writeToPack extracts from it; "" is a      *)
(* record from which no cursor can be extracted.                           *)
(***************************************************************************)
\* number of Init calls (sessions) of one plugin instance
MaxSessions == 3
\* number of records the dispatch loop receives in one session
MaxEntries == 2

Cursors == {"c1", "c2"}
NoCursor == ""
NoFile == "<absent>"
\* a checkpoint file that was overwritten without having been emptied
Garbled == "<garbled>"
\* diagnostic lines of the external process, by the prefix Run tests
StderrLines == {"Failed to seek to cursor", "Failed to add match", "other"}

\* the duplicate check with the comparison inverted
IsDuplicateInverted(f, loaded, c) == f /\ loaded # c

\* line 232: the duplicate check on a received record
IsDuplicate(f, loaded, c) == f /\ loaded = c

\* lines 108-113: the lazy open, O_CREATE|O_TRUNC.  Result: [file, handle, err]
openCheckpoint(file, io) ==
  IF io = "fail"
    THEN [file |-> file, handle |-> "nil", err |-> "open"]
    ELSE [file |-> NoCursor, handle |-> "open", err |-> "nil"]

\* lines 114-115: Seek(0, 0) and Truncate(0), whose errors are not looked at
truncateCheckpoint(file, io) == IF io = "fail" THEN file ELSE NoCursor

\* the contents a file can have once c is written over its content `file`:
\* over an emptied file exactly c; over content that was left in place
\* either c or a mix of the two
writeOver(file, c) == IF file \in {NoCursor, c} THEN {c} ELSE {c, Garbled}

\* line 116: WriteString(cursor).  Result: [file, err]
writeString(file, c, io, content) ==
  IF io = "fail"
    THEN [file |-> file, err |-> "write"]
    ELSE [file |-> content, err |-> "nil"]

\* readCheckpoint(filename), lines 120-132, on an existing file
readCheckpoint(file) == file

\* the cursor of a session that ignores the request to drop it
initCursorKeep(drop, loaded) == loaded

\* lines 166-169: the cursor of the session, dropped after a seek failure
initCursor(drop, loaded) == IF drop THEN NoCursor ELSE loaded

\* a test of the diagnostic line that never recognises a rejected match
IsBadMatchNever(line) == FALSE

\* line 256: the diagnostic line reports a rejected match
IsBadMatch(line) == line = "Failed to add match"

\* line 251: the diagnostic line reports a cursor that cannot be sought
IsSeekFailure(line) == line = "Failed to seek to cursor"

\* a loop that goes back to the select without calling writeCheckpoint
afterDispatchSkip(handle) == "select"

\* lines 244 and 108: after the dispatch Run calls writeCheckpoint, which
\* starts at the lazy open or, with the file open, at the seek
afterDispatch(handle) == IF handle = "nil" THEN "open" ELSE "truncate"

NoEntry == [n |-> 0, cursor |-> NoCursor, dispatched |-> FALSE, wrote |-> FALSE,
            werr |-> "nil", fileBefore |-> NoFile, truncFailed |-> FALSE]

InputStart ==
  /\ ckFile \in {NoFile, NoCursor} \cup Cursors
  /\ cursor = ""
  /\ first = FALSE
  /\ drop_cursor = FALSE
  /\ bad_matches = FALSE
  /\ checkpointFile = "nil"
  /\ stopClosed = FALSE
  /\ onceDone = FALSE
  /\ run = "new"
  /\ proc = "notstarted"
  /\ afterCursor = ""
  /\ sessions = 0
  /\ nrecv = 0
  /\ trace = <<>>
  /\ last = NoEntry
  /\ lp = "select"
  /\ produced = <<>>
  /\ startFile = NoFile
  /\ seekSeen = FALSE
  /\ prevSeek = FALSE
  /\ matchSeen = FALSE
  /\ stopRequested = FALSE
  /\ closes = 0
  /\ ckFailed = FALSE
  /\ rc = "idle"
  /\ tasks = FALSE
  /\ errPending = FALSE
  /\ badCursors = {}

\* Init(config), lines 139-189.  io = "fail" is an error of readCheckpoint
\* or os.MkdirAll.  The error return of line 143 leaves the instance as it
\* was.
Init ==
  /\ run \in {"new", "returned", "failed", "initfailed"}
  /\ sessions < MaxSessions
  /\ sessions' = sessions + 1
  /\ \E io \in {"ok", "fail"} :
       IF bad_matches
         THEN /\ io = "ok"
              /\ run' = "initfailed"
              /\ UNCHANGED <<ckFile, cursor, first, drop_cursor, bad_matches,
                             checkpointFile, stopClosed, onceDone, proc, afterCursor,
                             nrecv, trace, last, lp, produced, startFile, seekSeen,
                             prevSeek, matchSeen, stopRequested, closes, ckFailed>>
              /\ UNCHANGED rvars
         ELSE /\ stopClosed' = FALSE
              /\ first' = TRUE
              /\ drop_cursor' = FALSE
              /\ bad_matches' = FALSE
              /\ nrecv' = 0
              /\ trace' = <<>>
              /\ last' = NoEntry
              /\ lp' = "select"
              /\ produced' = <<>>
              /\ startFile' = ckFile
              /\ prevSeek' = seekSeen
              /\ seekSeen' = FALSE
              /\ stopRequested' = FALSE
              /\ closes' = 0
              /\ ckFailed' = FALSE
              /\ rc' = "idle"
              /\ tasks' = FALSE
              /\ errPending' = FALSE
              /\ UNCHANGED <<ckFile, checkpointFile, onceDone, matchSeen, badCursors>>
              /\ IF io = "fail"
                   THEN /\ cursor' = IF ckFile # NoFile THEN "" ELSE cursor
                        /\ run' = "initfailed"
                        /\ UNCHANGED <<proc, afterCursor>>
                   ELSE LET loaded == IF ckFile # NoFile THEN readCheckpoint(ckFile)
                                                         ELSE cursor
                            c == initCursor(drop_cursor, loaded)
                        IN  /\ cursor' = c
                            /\ afterCursor' = c
                            /\ proc' = "notstarted"
                            /\ run' = "inited"
  /\ UNCHANGED pvars

\* RunCmd has closed stdoutChan (line 359)
stdoutClosed == rc \in {"closeerr", "done"}
\* RunCmd has closed stderrChan (line 360)
stderrClosed == rc = "done"
\* the program is running: the host did not die and no goroutine panicked
Alive == run \notin {"crashed", "panicked"}

\* Run up to the loop, lines 195-220: go pi.RunCmd()
RunStart ==
  /\ run = "inited"
  /\ run' = "running"
  /\ rc' = "start"
  /\ UNCHANGED <<ckFile, cursor, first, drop_cursor, bad_matches, checkpointFile,
                 stopClosed, onceDone, proc, afterCursor, sessions, nrecv, trace, last,
                 lp, produced, startFile, seekSeen, prevSeek, matchSeen,
                 stopRequested, closes, ckFailed, tasks, errPending, badCursors>>
  /\ UNCHANGED pvars

\* RunCmd, lines 346-352: cmd.Start; its error is logged and RunCmd goes on:
\* both producers are started and cmd.Wait is called
CmdStart ==
  /\ Alive /\ rc = "start"
  /\ \E io \in {"ok", "fail"} :
       proc' = IF io = "ok" THEN "running" ELSE "startfailed"
  /\ tasks' = TRUE
  /\ rc' = "wait"
  /\ UNCHANGED <<ckFile, cursor, first, drop_cursor, bad_matches, checkpointFile,
                 stopClosed, onceDone, run, afterCursor, sessions, nrecv, trace, last,
                 lp, produced, startFile, seekSeen, prevSeek, matchSeen,
                 stopRequested, closes, ckFailed, errPending, badCursors>>
  /\ UNCHANGED pvars

\* ParseOutput, lines 373-410: the next record of the process is read and
\* offered on the unbuffered stdoutChan; the send blocks until Run takes it
ParseOutput ==
  /\ Alive /\ tasks /\ rc = "wait" /\ proc \in {"running", "exited"}
  /\ Len(produced) = nrecv
  /\ Len(produced) < MaxEntries
  /\ \E c \in Cursors \cup {NoCursor} : produced' = Append(produced, c)
  /\ UNCHANGED <<ckFile, cursor, first, drop_cursor, bad_matches, checkpointFile,
                 stopClosed, onceDone, run, proc, afterCursor, sessions, nrecv, trace,
                 last, lp, startFile, seekSeen, prevSeek, matchSeen, stopRequested,
                 closes, ckFailed>>
  /\ UNCHANGED rvars
  /\ UNCHANGED pvars

\* ParseErrorOutput, lines 363-371: the next diagnostic line of the process
\* is read and offered on the unbuffered stderrChan (which line it is shows
\* when Run receives it)
ParseErrorOutput ==
  /\ Alive /\ tasks /\ rc = "wait" /\ proc \in {"running", "exited"}
  /\ ~errPending
  /\ errPending' = TRUE
  /\ UNCHANGED <<ckFile, cursor, first, drop_cursor, bad_matches, checkpointFile,
                 stopClosed, onceDone, run, proc, afterCursor, sessions, nrecv, trace,
                 last, lp, produced, startFile, seekSeen, prevSeek, matchSeen,
                 stopRequested, closes, ckFailed, rc, tasks, badCursors>>
  /\ UNCHANGED pvars

\* case data, ok = <-pi.stdoutChan with ok = true, lines 224-243: the record
\* is received, the duplicate check is made and the pack is handed to the
\* decoder or the router; writeCheckpoint is entered next.  The select does
\* not look at stopChan when it takes this case.
RunStdout ==
  /\ run = "running" /\ ~stdoutClosed /\ lp = "select"
  /\ nrecv < Len(produced)
  /\ LET c == produced[nrecv + 1]
     IN  /\ nrecv' = nrecv + 1
         /\ IF IsDuplicate(first, cursor, c)
              THEN /\ first' = FALSE
                   /\ trace' = Append(trace, [ev |-> "discard", c |-> c, idx |-> nrecv + 1])
                   /\ last' = [NoEntry EXCEPT !.n = nrecv + 1, !.cursor = c,
                                              !.fileBefore = ckFile]
                   /\ UNCHANGED lp
              ELSE /\ trace' = Append(trace, [ev |-> "dispatch", c |-> c, idx |-> nrecv + 1])
                   /\ last' = [NoEntry EXCEPT !.n = nrecv + 1, !.cursor = c,
                                              !.dispatched = TRUE, !.wrote = TRUE,
                                              !.fileBefore = ckFile]
                   /\ lp' = afterDispatch(checkpointFile)
                   /\ UNCHANGED first
  /\ UNCHANGED <<ckFile, cursor, drop_cursor, bad_matches, checkpointFile, stopClosed,
                 onceDone, run, proc, afterCursor, sessions, produced, startFile,
                 seekSeen, prevSeek, matchSeen, stopRequested, closes, ckFailed>>
  /\ UNCHANGED rvars
  /\ UNCHANGED pvars

\* writeCheckpoint, lines 108-113: the file is opened on first use; a
\* failure is returned and Run returns it (lines 244-246)
CheckpointOpen ==
  /\ run = "running" /\ lp = "open"
  /\ \E io \in {"ok", "fail"} :
       LET o == openCheckpoint(ckFile, io)
       IN  /\ ckFile' = o.file
           /\ checkpointFile' = o.handle
           /\ IF o.err = "nil"
                THEN /\ lp' = "truncate"
                     /\ UNCHANGED <<run, trace, last, ckFailed>>
                ELSE /\ lp' = "select"
                     /\ run' = "failed"
                     /\ ckFailed' = TRUE
                     /\ last' = [last EXCEPT !.werr = o.err]
                     /\ trace' = Append(trace, [ev |-> "writefail", c |-> last.cursor,
                                                idx |-> last.n])
  /\ UNCHANGED <<cursor, first, drop_cursor, bad_matches, stopClosed, onceDone, proc,
                 afterCursor, sessions, nrecv, produced, startFile, seekSeen, prevSeek,
                 matchSeen, stopRequested, closes>>
  /\ UNCHANGED rvars
  /\ UNCHANGED pvars

\* writeCheckpoint, lines 114-115: Seek and Truncate; writeCheckpoint goes
\* on to the write whatever they return
CheckpointTruncate ==
  /\ run = "running" /\ lp = "truncate"
  /\ \E io \in {"ok", "fail"} :
       /\ ckFile' = truncateCheckpoint(ckFile, io)
       /\ last' = [last EXCEPT !.truncFailed = (io = "fail")]
       /\ ckFailed' = (ckFailed \/ io = "fail")
  /\ lp' = "write"
  /\ UNCHANGED <<cursor, first, drop_cursor, bad_matches, checkpointFile, stopClosed,
                 onceDone, run, proc, afterCursor, sessions, nrecv, trace, produced,
                 startFile, seekSeen, prevSeek, matchSeen, stopRequested, closes>>
  /\ UNCHANGED rvars
  /\ UNCHANGED pvars

\* writeCheckpoint, lines 116-117, and Run, lines 244-246: the cursor is
\* written; Run returns the error of a failed write
CheckpointWrite ==
  /\ run = "running" /\ lp = "write"
  /\ \E io \in {"ok", "fail"}, content \in writeOver(ckFile, last.cursor) :
       LET w == writeString(ckFile, last.cursor, io, content)
       IN  /\ ckFile' = w.file
           /\ last' = [last EXCEPT !.werr = w.err]
           /\ trace' = Append(trace, [ev |-> IF w.err = "nil" THEN "write" ELSE "writefail",
                                      c |-> last.cursor, idx |-> last.n])
           /\ run' = IF w.err = "nil" THEN "running" ELSE "failed"
           /\ ckFailed' = (ckFailed \/ w.err # "nil")
  /\ lp' = "select"
  /\ UNCHANGED <<cursor, first, drop_cursor, bad_matches, checkpointFile, stopClosed,
                 onceDone, proc, afterCursor, sessions, nrecv, produced, startFile,
                 seekSeen, prevSeek, matchSeen, stopRequested, closes>>
  /\ UNCHANGED rvars
  /\ UNCHANGED pvars

\* case data, ok = <-pi.stdoutChan with ok = false, lines 224-227: RunCmd
\* closed the channel after the process exited; the loop ends
RunStdoutClosed ==
  /\ run = "running" /\ stdoutClosed /\ lp = "select"
  /\ run' = "returned"
  /\ UNCHANGED <<ckFile, cursor, first, drop_cursor, bad_matches, checkpointFile,
                 stopClosed, onceDone, proc, afterCursor, sessions, nrecv, trace, last,
                 lp, produced, startFile, seekSeen, prevSeek, matchSeen,
                 stopRequested, closes, ckFailed>>
  /\ UNCHANGED rvars
  /\ UNCHANGED pvars

\* case data = <-pi.stderrChan, lines 248-276
RunStderr ==
  /\ run = "running" /\ ~stderrClosed /\ lp = "select"
  /\ errPending
  /\ \E line \in StderrLines :
         /\ drop_cursor' = (drop_cursor \/ IsSeekFailure(line))
         /\ bad_matches' = (bad_matches \/ (~IsSeekFailure(line) /\ IsBadMatch(line)))
         /\ seekSeen' = (seekSeen \/ line = "Failed to seek to cursor")
         /\ matchSeen' = (matchSeen \/ line = "Failed to add match")
         /\ badCursors' = IF line = "Failed to seek to cursor" /\ afterCursor # NoCursor
                             THEN badCursors \cup {afterCursor}
                             ELSE badCursors
  /\ errPending' = FALSE
  /\ UNCHANGED <<ckFile, cursor, first, checkpointFile, stopClosed, onceDone, run, proc,
                 afterCursor, sessions, nrecv, trace, last, lp, produced, startFile,
                 prevSeek, stopRequested, closes, ckFailed, rc, tasks>>
  /\ UNCHANGED pvars

\* case <-pi.stopChan, lines 278-279: the loop ends and Run returns nil
RunStopped ==
  /\ run = "running" /\ stopClosed /\ lp = "select"
  /\ run' = "returned"
  /\ UNCHANGED <<ckFile, cursor, first, drop_cursor, bad_matches, checkpointFile,
                 stopClosed, onceDone, proc, afterCursor, sessions, nrecv, trace, last,
                 lp, produced, startFile, seekSeen, prevSeek, matchSeen,
                 stopRequested, closes, ckFailed>>
  /\ UNCHANGED rvars
  /\ UNCHANGED pvars

\* Stop(), lines 336-341 (CleanupForRestart, lines 420-423, calls it):
\* pi.once closes the stop channel on the first call of the instance and
\* does nothing afterwards
Stop ==
  /\ run \in {"inited", "running", "returned", "failed"}
  /\ stopRequested' = TRUE
  /\ IF onceDone
       THEN UNCHANGED <<onceDone, stopClosed, closes>>
       ELSE /\ onceDone' = TRUE
            /\ stopClosed' = TRUE
            /\ closes' = closes + 1
  /\ UNCHANGED <<ckFile, cursor, first, drop_cursor, bad_matches, checkpointFile, run,
                 proc, afterCursor, sessions, nrecv, trace, last, lp, produced,
                 startFile, seekSeen, prevSeek, matchSeen, ckFailed>>
  /\ UNCHANGED rvars
  /\ UNCHANGED pvars

\* the external process exits, cleanly or with an error
ProcessExit ==
  /\ Alive /\ proc = "running"
  /\ proc' = "exited"
  /\ UNCHANGED <<ckFile, cursor, first, drop_cursor, bad_matches, checkpointFile,
                 stopClosed, onceDone, run, afterCursor, sessions, nrecv, trace, last,
                 lp, produced, startFile, seekSeen, prevSeek, matchSeen,
                 stopRequested, closes, ckFailed>>
  /\ UNCHANGED rvars
  /\ UNCHANGED pvars

\* the program ends (the host dies, or a goroutine panics): what the
\* instance held in memory is gone; the checkpoint file and the state of the
\* external process stay, and so does the record of what the session
\* produced, dispatched and wrote
Ended(how) ==
  /\ run' = how
  /\ cursor' = "" /\ first' = FALSE /\ drop_cursor' = FALSE /\ bad_matches' = FALSE
  /\ checkpointFile' = "nil" /\ stopClosed' = FALSE /\ onceDone' = FALSE
  /\ afterCursor' = "" /\ nrecv' = 0 /\ last' = NoEntry
  /\ lp' = "select" /\ seekSeen' = FALSE /\ prevSeek' = FALSE /\ matchSeen' = FALSE
  /\ stopRequested' = FALSE /\ closes' = 0 /\ ckFailed' = FALSE
  /\ rc' = "idle" /\ tasks' = FALSE /\ errPending' = FALSE /\ badCursors' = {}
  /\ UNCHANGED <<ckFile, proc, sessions, trace, produced, startFile>>

\* RunCmd, lines 354-359: cmd.Wait returns once the process has exited (at
\* once when it was never started), whatever a producer has read and not
\* yet sent, and stdoutChan is closed; ParseOutput panics when it is
\* sending, or goes on to send, a record it has read
CmdWait ==
  /\ Alive /\ rc = "wait" /\ proc \in {"exited", "startfailed"}
  /\ IF Len(produced) > nrecv
       THEN Ended("panicked")
       ELSE /\ rc' = "closeerr"
            /\ UNCHANGED <<ckFile, cursor, first, drop_cursor, bad_matches,
                           checkpointFile, stopClosed, onceDone, run, proc, afterCursor,
                           sessions, nrecv, trace, last, lp, produced, startFile,
                           seekSeen, prevSeek, matchSeen, stopRequested, closes,
                           ckFailed, tasks, errPending, badCursors>>
  /\ UNCHANGED pvars

\* RunCmd, line 360: close(pi.stderrChan); ParseErrorOutput panics when it
\* is sending a line it has read
CloseStderr ==
  /\ Alive /\ rc = "closeerr"
  /\ IF errPending
       THEN Ended("panicked")
       ELSE /\ rc' = "done"
            /\ UNCHANGED <<ckFile, cursor, first, drop_cursor, bad_matches,
                           checkpointFile, stopClosed, onceDone, run, proc, afterCursor,
                           sessions, nrecv, trace, last, lp, produced, startFile,
                           seekSeen, prevSeek, matchSeen, stopRequested, closes,
                           ckFailed, tasks, errPending, badCursors>>
  /\ UNCHANGED pvars

\* the host process dies while a session is open; what is on disk stays
Crash ==
  /\ run \in {"inited", "running"}
  /\ Ended("crashed")
  /\ UNCHANGED pvars

InputNext ==
  \/ Init
  \/ RunStart
  \/ CmdStart
  \/ ParseOutput
  \/ ParseErrorOutput
  \/ RunStdout
  \/ CheckpointOpen
  \/ CheckpointTruncate
  \/ CheckpointWrite
  \/ RunStdoutClosed
  \/ RunStderr
  \/ RunStopped
  \/ Stop
  \/ ProcessExit
  \/ CmdWait
  \/ CloseStderr
  \/ Crash

(***************************************************************************)
(* Specifications: the parser on its own byte source, and the plugin.      *)
(* (JournalCtlInput.Init installs pipeline.NewTokenParser, line 183, so    *)
(* the two do not share state.)                                            *)
(***************************************************************************)
ParserIdle ==
  /\ p = newJournalCtlStreamParserBuffer
  /\ stream = <<>>
  /\ off = 0
  /\ ret = NoCall
  /\ out = <<>>
  /\ panicked = FALSE
  /\ phase = "closed"
  /\ shortSeen = FALSE

InputIdle ==
  /\ InputStart
  /\ ckFile = NoFile

ParserInit == ParserStart /\ InputIdle
ParserSpec == ParserInit /\ [][ParserNext]_vars

InputInit == InputStart /\ ParserIdle
InputSpec == InputInit /\ [][InputNext]_vars

TypeOK ==
  /\ p.readPos \in Nat /\ p.scanPos \in Nat
  /\ off \in 0..Len(stream)
  /\ phase \in {"parsing", "eof", "closed"}
  /\ run \in {"new", "inited", "running", "returned", "failed", "initfailed", "crashed",
             "panicked"}
  /\ rc \in {"idle", "start", "wait", "closeerr", "done"}
  /\ errPending \in BOOLEAN
  /\ badCursors \subseteq Cursors \cup {Garbled}
  /\ ckFile \in {NoFile, NoCursor, Garbled} \cup Cursors
  /\ lp \in {"select", "open", "truncate", "write"}
  /\ Alive => Len(produced) \in {nrecv, nrecv + 1}
  /\ closes \in {0, 1}

(***************************************************************************)
(* The export format, stated on the bytes a call scanned (independent of   *)
(* the operators Parse is built from)                                      *)
(***************************************************************************)
HasNL(v) == \E i \in 1..Len(v) : v[i] = NL
\* 1-based position of the first newline
FirstNL(v) == CHOOSE i \in 1..Len(v) : v[i] = NL /\ \A j \in 1..(i - 1) : v[j] # NL
\* the first line, newline included
LineOf(v) == SubSeq(v, 1, FirstNL(v))
HasEQ(l) == \E i \in 1..Len(l) : l[i] = EQ
IsEndMarker(v) == HasNL(v) /\ FirstNL(v) = 1
IsTextLine(v) == HasNL(v) /\ HasEQ(LineOf(v))
IsBareKeyLine(v) == HasNL(v) /\ FirstNL(v) > 1 /\ ~HasEQ(LineOf(v))
\* the bare-key line is followed by the 8 length bytes of L, L payload bytes
\* and a newline, all within v
BinaryWithLen(v, L) ==
  /\ IsBareKeyLine(v)
  /\ Len(v) >= FirstNL(v) + LenBytes + L + 1
  /\ SubSeq(v, FirstNL(v) + 1, FirstNL(v) + LenBytes) = PutUint64(L)
  /\ v[FirstNL(v) + LenBytes + L + 1] = NL
FullBinary(v) == \E L \in 0..Len(v) : BinaryWithLen(v, L)
PayloadLen(v) == CHOOSE L \in 0..Len(v) : BinaryWithLen(v, L)
CompleteItem(v) == IsEndMarker(v) \/ IsTextLine(v) \/ FullBinary(v)
\* the item a complete prefix of v encodes
ItemOf(v) ==
  IF IsEndMarker(v) THEN [key |-> <<>>, value |-> <<>>, final |-> TRUE]
  ELSE IF IsTextLine(v)
    THEN LET l == LineOf(v)
             e == CHOOSE i \in 1..Len(l) : l[i] = EQ /\ \A j \in 1..(i - 1) : l[j] # EQ
         IN  [key |-> SubSeq(l, 1, e - 1), value |-> SubSeq(l, e + 1, Len(l) - 1),
              final |-> FALSE]
  ELSE [key |-> SubSeq(v, 1, FirstNL(v) - 1),
        value |-> SubSeq(v, FirstNL(v) + LenBytes + 1, FirstNL(v) + LenBytes + PayloadLen(v)),
        final |-> FALSE]
Returned == [key |-> ret.key, value |-> ret.value, final |-> ret.final]
NoField == ret.key = <<>> /\ ret.value = <<>> /\ ~ret.final
Scanned == ret.op = "Parse" /\ ret.scanned
\* the unconsumed bytes buf[scanPos:readPos]
Unconsumed == IF p.scanPos <= p.readPos THEN Slice(p.buf, p.scanPos, p.readPos) ELSE <<>>

(***************************************************************************)
(* The same stream delivered in the largest chunks the buffer takes: every *)
(* Read hands out all the source holds (a single chunk when it fits).      *)
(***************************************************************************)
RECURSIVE SingleChunkRun(_, _, _)
SingleChunkRun(q, data, acc) ==
  LET r == Parse(q, data, IF Len(data) > 0 THEN Len(data) ELSE 1)
      acc2 == IF ~r.panic /\ IsItem(r)
                THEN Append(acc, [key |-> r.key, value |-> r.value, final |-> r.final])
                ELSE acc
  IN  IF r.panic THEN [out |-> acc, panic |-> TRUE]
      ELSE IF r.err = "EOF" THEN [out |-> acc2, panic |-> FALSE]
      ELSE SingleChunkRun(r.p, Slice(data, r.fromSrc, Len(data)), acc2)

SingleChunk(st) == SingleChunkRun(newJournalCtlStreamParserBuffer, st, <<>>)

(***************************************************************************)
(* Claims on the parser                                                    *)
(***************************************************************************)

\* C1: chunk-boundary invariance: however the stream is split into chunks,
\* the items Parse has returned when the stream ends (or the call panics)
\* are those of the same bytes delivered in a single chunk.
C1_ChunkInvariance ==
  (phase # "parsing" \/ panicked) =>
     [out |-> out, panic |-> panicked] = SingleChunk(stream)

\* C2: need more data: when the unconsumed bytes hold no newline after the
\* read, the call returns no field, leaves scanPos unchanged and sets
\* needData.
C2_NeedMoreData ==
  (Scanned /\ ~HasNL(ret.view)) =>
     /\ ~panicked
     /\ ret.err = "nil"
     /\ NoField
     /\ p.scanPos = ret.sp0
     /\ p.needData

\* C3: no partial binary payload: after a bare-key line, a field is returned
\* only when the 8 length bytes, the payload and the trailing newline were
\* all read; otherwise no field is returned and nothing is consumed.
C3_NoPartialBinary ==
  (Scanned /\ IsBareKeyLine(ret.view) /\ ~FullBinary(ret.view)) =>
     /\ ~panicked
     /\ NoField
     /\ p.scanPos = ret.sp0

\* C4: RawBuffer invariant: 0 <= scanPos <= readPos <= cap(buf) after every
\* Parse, read and GetRemainingData call.
C4_RawBufferInvariant ==
  /\ 0 <= p.scanPos
  /\ p.scanPos <= p.readPos
  /\ p.readPos <= Cap(p)

\* C5: textual field: when the next buffered line contains '=', Parse
\* returns the bytes before the first '=' as key and the bytes after it, up
\* to the newline, as value, final = false, and advances scanPos by the
\* length of the line (line 164; lines 168-171 then rewind both positions
\* to 0 when that exhausted the buffer).
C5_TextField ==
  (Scanned /\ IsTextLine(ret.view)) =>
     LET l == LineOf(ret.view)
     IN  /\ ~panicked
         /\ ret.err = "nil"
         /\ ~ret.final
         /\ \E e \in 1..Len(l) :
              /\ l[e] = EQ
              /\ \A j \in 1..(e - 1) : l[j] # EQ
              /\ ret.key = SubSeq(l, 1, e - 1)
              /\ ret.value = SubSeq(l, e + 1, Len(l) - 1)
         /\ ret.bytesRead = Len(l)
         /\ ret.sp1 = ret.sp0 + Len(l)
         /\ \/ p.scanPos = ret.sp1 /\ p.readPos = ret.rp0
            \/ ret.sp1 = ret.rp0 /\ p.scanPos = 0 /\ p.readPos = 0
         /\ Unconsumed = SubSeq(ret.view, Len(l) + 1, Len(ret.view))

\* a Parse call returned the textual field "B=c=d" as ("B", "c=d")
C5_Witness ==
  /\ Scanned /\ IsTextLine(ret.view)
  /\ LineOf(ret.view) = TextField2
  /\ ret.key = <<66>> /\ ret.value = <<99, 61, 100>>

\* C6: binary field: for a fully buffered KEY\n, length L, L payload bytes
\* and newline, Parse returns key = KEY and value = the L payload bytes and
\* leaves scanPos on the byte after the trailing newline, and the next Parse
\* call that returns normally yields the item that follows when that item
\* is buffered.
C6_BinaryFieldState ==
  (Scanned /\ FullBinary(ret.view)) =>
     LET v == ret.view
         n == FirstNL(v)
         L == PayloadLen(v)
         total == n + LenBytes + L + 1
     IN  /\ ~panicked
         /\ ret.err = "nil"
         /\ ~ret.final
         /\ ret.key = SubSeq(v, 1, n - 1)
         /\ ret.value = SubSeq(v, n + LenBytes + 1, n + LenBytes + L)
         /\ Len(ret.value) = L
         /\ ret.sp1 = ret.sp0 + total
         /\ \/ p.scanPos = ret.sp1 /\ p.readPos = ret.rp0
            \/ ret.sp1 = ret.rp0 /\ p.scanPos = 0 /\ p.readPos = 0
         /\ Unconsumed = SubSeq(v, total + 1, Len(v))

C6_NextCall ==
  (/\ Scanned /\ FullBinary(ret.view) /\ ~panicked
   /\ ret'.op = "Parse" /\ ret'.err = "nil"
   /\ CompleteItem(Unconsumed))
  => /\ ~panicked'
     /\ Returned' = ItemOf(Unconsumed)

C7_Oversized ==
  (stream \in OversizedStreams) =>
     /\ ~panicked
     /\ (~shortSeen => out = <<>>)
     /\ (ret.op = "Parse" /\ ret.err = "ErrShortBuffer"
           => p.scanPos = 0 /\ p.readPos = 0)
     /\ (phase # "parsing" =>
           /\ shortSeen
           /\ out = << [key |-> <<65>>, value |-> <<98>>, final |-> FALSE],
                       [key |-> <<>>, value |-> <<>>, final |-> TRUE] >>)

\* C8: length-prefix validation: a length above the maximum record size, or
\* one that is negative as an int64, is rejected through the oversized-input
\* path and is not used to index the buffer or to advance scanPos.
C8_LengthValidated ==
  (/\ Scanned /\ IsBareKeyLine(ret.view)
   /\ Len(ret.view) >= FirstNL(ret.view) + LenBytes
   /\ LET L == LittleEndianInt64(SubSeq(ret.view, FirstNL(ret.view) + 1,
                                         FirstNL(ret.view) + LenBytes))
      IN  L < 0 \/ L > MAX_RECORD_SIZE)
  => /\ ~panicked
     /\ ret.err = "ErrShortBuffer"
     /\ NoField

\* C9: read discipline: a Parse call reads at most once, and only when the
\* buffer holds no complete unconsumed item.
C9_ReadDiscipline ==
  (ret.op = "Parse") =>
     /\ ret.reads <= 1
     /\ (ret.reads = 1 => ~CompleteItem(ret.pending))

(***************************************************************************)
(* Claims on JournalCtlInput                                               *)
(***************************************************************************)

\* C10: first-entry deduplication: in a session whose Init loaded a
\* persisted cursor C, a first received entry with cursor C is neither
\* dispatched nor checkpointed (the file keeps its content); every entry of
\* the session whose cursor differs from C is dispatched, and once
\* writeCheckpoint has returned the checkpoint file holds that entry's
\* cursor (when no file operation failed).
C10_FirstEntryDedup ==
  (run \in {"running", "returned", "failed"} /\ lp = "select"
     /\ cursor # NoCursor /\ last.n >= 1) =>
     /\ (last.n = 1 /\ last.cursor = cursor) =>
           /\ ~last.dispatched
           /\ ~last.wrote
           /\ ckFile = last.fileBefore
           /\ trace = << [ev |-> "discard", c |-> cursor, idx |-> 1] >>
     /\ (last.cursor # cursor) =>
           /\ last.dispatched
           /\ last.wrote
           /\ ((last.werr = "nil" /\ ~last.truncFailed) => ckFile = last.cursor)
           /\ \E i \in 1..(Len(trace) - 1) :
                /\ trace[i] = [ev |-> "dispatch", c |-> last.cursor, idx |-> last.n]
                /\ trace[i + 1].c = last.cursor
                /\ trace[i + 1].ev \in {"write", "writefail"}
                /\ i + 1 = Len(trace)

\* the first entry of a session repeated the loaded cursor c1 and was
\* discarded; the second entry, with cursor c2, was dispatched and the
\* checkpoint file now holds c2
C10_Witness ==
  /\ cursor = "c1"
  /\ last.n = 2 /\ last.cursor = "c2" /\ last.dispatched
  /\ trace = << [ev |-> "discard", c |-> "c1", idx |-> 1],
                [ev |-> "dispatch", c |-> "c2", idx |-> 2],
                [ev |-> "write", c |-> "c2", idx |-> 2] >>
  /\ ckFile = "c2"

\* C11: the duplicate check is one-shot: an entry that is not the first
\* entry received in its session is never discarded by the duplicate check,
\* even when its cursor equals the cursor loaded at Init and the first entry
\* of the session was not a duplicate.
C11_OneShot ==
  \A i \in 1..Len(trace) : trace[i].ev = "discard" => trace[i].idx = 1

\* C12: the duplicate check applies only when a prior cursor was loaded: in
\* a session whose Init loaded no cursor (no checkpoint file, an empty file,
\* or the cursor dropped after a seek failure) no entry is discarded as a
\* duplicate, a first entry without an extractable cursor included.
C12_NoCursorNoDedup ==
  (run \in {"running", "returned", "failed"} /\ cursor = NoCursor) =>
     \A i \in 1..Len(trace) : trace[i].ev # "discard"

\* the dispatches and checkpoint writes of the session, discards left out
Effects == SelectSeq(trace, LAMBDA e : e.ev # "discard")
Dispatched == {i \in 1..Len(trace) : trace[i].ev = "dispatch"}
LastDispatched == trace[CHOOSE i \in Dispatched : \A j \in Dispatched : j <= i]

\* C13: checkpoint durability: after the entries with cursors c1..cN were
\* dispatched in a session, a read of the checkpoint file returns exactly
\* cN at every crash point after the Nth dispatch completed, a crash before
\* or during the Nth writeCheckpoint included.
C13_Durability ==
  (run = "crashed" /\ Dispatched # {}) => ckFile = LastDispatched.c

\* C14: dispatch/checkpoint ordering: the dispatches and checkpoint writes
\* of a session alternate, dispatch(e1), write(cursor(e1)), dispatch(e2),
\* write(cursor(e2)), ...; the dispatched entries are entries ParseOutput
\* produced, in the order it produced them and none twice; no entry is
\* dispatched before the checkpoint write of the previous one completed
\* (a failed write is the last event of the session).
C14_Ordering ==
  LET D == Effects
  IN  \A i \in 1..Len(D) :
        /\ D[i].idx \in 1..Len(produced)
        /\ D[i].c = produced[D[i].idx]
        /\ (i % 2 = 1) =>
              /\ D[i].ev = "dispatch"
              /\ (i > 2 => D[i - 2].idx < D[i].idx)
              /\ (i > 1 => D[i - 1].ev = "write")
        /\ (i % 2 = 0) =>
              /\ D[i].ev \in {"write", "writefail"}
              /\ D[i].idx = D[i - 1].idx

\* two entries were dispatched in a session, each followed by the write of
\* its cursor
C14_Witness ==
  /\ produced = <<"c2", "c1">>
  /\ trace = << [ev |-> "dispatch", c |-> "c2", idx |-> 1],
                [ev |-> "write", c |-> "c2", idx |-> 1],
                [ev |-> "dispatch", c |-> "c1", idx |-> 2],
                [ev |-> "write", c |-> "c1", idx |-> 2] >>

\* what a reader of the checkpoint gets: nothing from an absent file
Content(f) == IF f = NoFile THEN NoCursor ELSE f

\* C15: checkpoint invariant and atomicity: in every state a crash, a
\* restart or a concurrent reader can observe, the steps inside
\* writeCheckpoint included, the checkpoint file holds either what it held
\* when the session started or the complete cursor of an entry already
\* dispatched; once a cursor has been persisted it is never empty or
\* partial.
C15_CheckpointAtomic ==
  /\ (sessions >= 1 /\ Content(ckFile) # Content(startFile)) =>
        \E i \in Dispatched : trace[i].c = ckFile
  /\ (sessions >= 1 /\ (startFile \in Cursors
                          \/ \E i \in 1..Len(trace) : trace[i].ev = "write")) =>
        ckFile \in Cursors

\* C16: a failed checkpoint write aborts the run: when a step of
\* writeCheckpoint fails (open, seek, truncate or write) Run returns an
\* error and no further entry of the session is dispatched.
C16_WriteFailureAborts ==
  /\ (ckFailed /\ lp = "select" /\ run \in {"running", "returned", "failed"}) =>
        run = "failed"
  /\ \A i \in 1..Len(trace) : trace[i].ev = "writefail" => i = Len(trace)

\* C17: seek-failure recovery: after Run handled a diagnostic line with
\* the prefix "Failed to seek to cursor", the next Init of the instance that
\* builds a command builds it without --after-cursor, although the
\* checkpoint file still holds a cursor, and the session's duplicate check
\* uses the empty cursor.  Until that Init the request stays recorded.
C17_SeekFailureRecovery ==
  /\ (prevSeek /\ run \in {"inited", "running", "returned", "failed"}) =>
        /\ afterCursor = NoCursor
        /\ cursor = NoCursor
        /\ \A i \in 1..Len(trace) :
              trace[i].ev = "discard" => trace[i].c = NoCursor
  /\ seekSeen => drop_cursor

\* a session that followed a seek failure runs without --after-cursor and
\* dispatched an entry carrying the very cursor the checkpoint file held
C17_Witness ==
  /\ prevSeek
  /\ run = "running"
  /\ startFile = "c1"
  /\ afterCursor = NoCursor
  /\ trace = << [ev |-> "dispatch", c |-> "c1", idx |-> 1],
                [ev |-> "write", c |-> "c1", idx |-> 1] >>

\* C18state: after Run handled "Failed to add match" no Init of the instance
\* has succeeded, so no command waits to be started
C18_NoCommand == matchSeen => (bad_matches /\ run # "inited")

\* C18step: an Init that follows the handling of "Failed to add match"
\* returns an error and builds and starts nothing
C18_InitRefused ==
  (matchSeen /\ sessions' # sessions) =>
     /\ run' = "initfailed"
     /\ proc' = proc
     /\ afterCursor' = afterCursor
     /\ bad_matches'

\* C18: bad matches are permanently unrecoverable: once Run has handled a
\* diagnostic line with the prefix "Failed to add match", every later Init
\* of the instance returns an error and never builds or starts a new
\* external process, however many restarts are attempted.
C18_BadMatchesPermanent == [](C18_NoCommand) /\ [][C18_InitRefused]_vars

\* two restarts in a row were refused after the rejected match
C18_Witness ==
  /\ matchSeen
  /\ sessions = 3
  /\ run = "initfailed"
  /\ proc = "running"

\* C19: Stop is idempotent and effective in every session: a stop channel
\* is never closed twice, and in every session, one started by a new Init
\* after Stop was called in an earlier session included, a Stop request
\* closes the session's stop channel, which is what makes Run's loop exit.
C19_StopEffective ==
  /\ closes <= 1
  /\ (stopRequested /\ run \in {"inited", "running"}) => stopClosed

\* C20: output after stop is discarded: once Stop has closed the stop
\* channel, Run's select dispatches no further entry and writes no further
\* checkpoint, even when an entry is available on stdoutChan at that time.
C20_NoOutputAfterStop ==
  [][(stopClosed /\ lp = "select" /\ sessions' = sessions) =>
        (Effects' = Effects /\ ckFile' = ckFile)]_vars

\* C21: process exit ends the session: after the external process has
\* exited, RunCmd closes both channels and Run's loop exits without a Stop
\* request: no goroutine panics on the way, and as long as Run is in its
\* loop a step towards its exit (cmd.Wait returning, the rest of
\* writeCheckpoint, the closed stdoutChan being received) can be taken.
C21_ExitEndsSession ==
  proc = "exited" =>
     /\ run # "panicked"
     /\ run = "running" =>
           \/ rc = "wait"
           \/ (stdoutClosed /\ lp = "select")
           \/ lp \in {"open", "truncate", "write"}

\* C22: a failed process start does not enter Running: when cmd.Start
\* fails, the stdout parser task and the stderr scanner task are not
\* started and the process is not waited on.
C22_StartFailureNotRunning ==
  proc = "startfailed" => (~tasks /\ rc \notin {"wait", "closeerr", "done"})

\* C23: no send on a closed channel and no loss at process exit: no
\* producer sends on stdoutChan or stderrChan after RunCmd closed it (the
\* send would panic), and every record or line a producer read from the
\* process before the close was delivered to Run's loop.
C23_NoSendOnClosed ==
  /\ run # "panicked"
  /\ (Alive /\ stdoutClosed) => Len(produced) = nrecv
  /\ (Alive /\ stderrClosed) => ~errPending

\* C24: a cursor reported as bad is never retried: after a session handled
\* "Failed to seek to cursor" while running with --after-cursor C, no later
\* Init of the instance builds a command with --after-cursor C.
C24_BadCursorNotRetried ==
  run = "inited" => afterCursor \notin badCursors

\* C25: the checkpoint is never overwritten with an empty cursor: when no
\* cursor can be extracted from a received record, the checkpoint file
\* holds after the handling of the record what it held before.
C25_NoEmptyOverwrite ==
  (run \in {"running", "returned", "failed"} /\ lp = "select"
     /\ last.n >= 1 /\ last.cursor = NoCursor) =>
     Content(ckFile) = Content(last.fileBefore)

=============================================================================
